---- MODULE Spec2Model ----
(***************************************************************************)
(* Model of the document session hook useDocument                          *)
(* (src/frontend/src/lib/liveblocks.ts), of the REST client it calls      *)
(* (ApiClient, src/unnamed/part_005) and of the section tree that the      *)
(* section panel renders (SectionPanel, src/unnamed/part_001).             *)
(*                                                                         *)
(* Every callback of the hook is an async function: it runs synchronously  *)
(* up to its first await, is suspended while the request is in flight, and *)
(* is resumed when the response arrives.  A callback in flight is a slot   *)
(* of `ops`; the values it read from its closure when it was called        *)
(* (activeBindings, activeSectionId) are kept in the slot.  State setters  *)
(* that use the functional form (prev => ...) act on the current state.    *)
(***************************************************************************)
EXTENDS Integers, Sequences, FiniteSets, TLC

\* ---------------------------------------------------------------- bounds
MaxBindings == 2        \* binding ids the backend hands out
MaxInFlight == 2        \* callbacks suspended at an await at the same time
MaxSections == 3        \* section rows the backend holds
MaxOrder == 1           \* `order` values are 0..MaxOrder
MaxOthers == 3          \* remote participants in the room
MaxMessages == 6        \* messages the chat panel hands to onNewMessage

\* ------------------------------------------------------------ value sets
SectionIds == {"s1", "s2"}
NoSection == "null"                     \* activeSectionId = null
BindingTypes == {"discussion", "editing"}
Contents == {"c1", "c2"}
NoBinding == 0                          \* find(...) returned undefined
NewSectionIds == {"s3"}                 \* ids the backend gives to new sections
AllSectionIds == SectionIds \cup NewSectionIds
Orders == 0..MaxOrder
Undefined == "undefined"                \* a field left out of Partial<Section>
NoOrder == -1                           \* `order` left out of the data

NoDoc == [loaded |-> FALSE, content |-> "null"]
Doc(c) == [loaded |-> TRUE, content |-> c]

NoBindingRec ==
    [id |-> NoBinding, section_id |-> NoSection, binding_type |-> "discussion",
     is_active |-> FALSE, deactivated_at |-> FALSE]

VARIABLES
    document,          \* useState<DocumentWithContent | null>
    sections,          \* useState<Section[]>
    activeBindings,    \* useState<SectionBinding[]>: the binding ledger
    activeSectionId,   \* useState<string | null>: the controller's focus
    isLoading,         \* useState(true)
    error,             \* useState<Error | null>, TRUE when an error is held
    ops,               \* the callbacks in flight, in the order of their calls
    last,              \* what the caller saw of the callback that settled last,
                       \* until it calls again
    srvContent,        \* backend: the document's content
    srvSections,       \* backend: the section rows
    srvBindings,       \* backend: the binding rows (active and inactive)
    nextId,            \* backend: next binding id
    panelSections,     \* SectionPanel: the `sections` prop
    panelPrev,         \* SectionPanel: the `sections` prop of the render before
                       \* the props changed, <<>> before the first change
    expandedSections,  \* SectionPanel: useState<Set<string>>
    rendered,          \* SectionPanel: the roots and the children it renders
    visited,           \* SectionPanel: the sections renderSection was called
                       \* for in the last render, in the order of the calls
    deactivateCalls,   \* the binding ids the deactivate call has been sent for
    others,            \* useOthers(): the presence of the remote participants
    cursorList,        \* CollaborationCursors: the cursors it renders
    collaborators,     \* what useCollaborators returns
    input,             \* ChatPanel: useState("")
    chatIsLoading,     \* ChatPanel: useState(false), its isLoading
    messages,          \* ChatPanel: the messages handed to onNewMessage
    sending,           \* ChatPanel: the sendMessage calls in flight
    aiError            \* useAI: useState<string | null>, TRUE when set

client == <<document, sections, activeBindings, activeSectionId, isLoading, error>>
server == <<srvContent, srvSections, srvBindings, nextId>>
panel == <<panelSections, panelPrev, expandedSections, rendered, visited>>
hook == <<document, sections, activeBindings, activeSectionId, isLoading, error,
          ops, last, srvContent, srvSections, srvBindings, nextId,
          deactivateCalls>>
presence == <<others, cursorList, collaborators>>
chat == <<input, chatIsLoading, messages, sending, aiError>>
ui == <<panel, presence, chat>>
vars == <<document, sections, activeBindings, activeSectionId, isLoading, error,
          ops, last, srvContent, srvSections, srvBindings, nextId,
          panelSections, panelPrev, expandedSections, rendered, visited,
          deactivateCalls, others, cursorList, collaborators,
          input, chatIsLoading, messages, sending, aiError>>

\* ------------------------------------------------------- array helpers
\* Array.prototype.find with the predicate given as the set of matching indices
FindIndex(s, Match(_)) ==
    LET hits == {k \in DOMAIN s : Match(s[k])}
    IN  IF hits = {} THEN 0 ELSE CHOOSE k \in hits : \A j \in hits : k <= j

Filter(s, Keep(_)) == SelectSeq(s, Keep)

Map(s, F(_)) == [k \in DOMAIN s |-> F(s[k])]

ActiveIn(s) == {k \in DOMAIN s : s[k].is_active}

\* ------------------------------------------------------------- op slots
IdleOp ==
    [kind |-> "none", pc |-> "idle", resp |-> "none",
     sectionId |-> NoSection, bindingType |-> "discussion", content |-> "null",
     binding |-> NoBinding, focus |-> NoSection, bindings |-> <<>>,
     calls |-> <<>>,
     payload |-> NoBindingRec,
     data |-> [parent_id |-> Undefined, order |-> NoOrder],
     section |-> [id |-> NoSection, parent_id |-> NoSection, order |-> 0],
     doc |-> "none", secs |-> "none", binds |-> "none",
     docVal |-> NoDoc, secsVal |-> <<>>, bindsVal |-> <<>>]

NoLast == [op |-> IdleOp, outcome |-> "none", onError |-> 0, pos |-> 0]

Call(api, target) == [api |-> api, target |-> target]   \* target: a section id or "b<id>"

BindingRef(id) == "b" \o ToString(id)

Remove(s, i) == [k \in 1..(Len(s) - 1) |-> IF k < i THEN s[k] ELSE s[k + 1]]

\* the i-th callback in flight settles: its promise resolves or rejects; the
\* callbacks before it in `ops` were called earlier and are still in flight
Settle(i, outcome, onErr) ==
    /\ last' = [op |-> ops[i], outcome |-> outcome, onError |-> onErr, pos |-> i]
    /\ ops' = Remove(ops, i)

\* ------------------------------------------------------------ backend
\* The persistence backend behind ApiClient.request.  Its code is not part
\* of the client sources; it is modelled from the specification's data model:
\* create appends an active binding, the PATCH with is_active:false closes
\* the binding and stamps deactivated_at.
Section(id, parent, ord) == [id |-> id, parent_id |-> parent, order |-> ord]

Binding(id, s, t) ==
    [id |-> id, section_id |-> s, binding_type |-> t,
     is_active |-> TRUE, deactivated_at |-> FALSE]

SrvSectionIds == {srvSections[k].id : k \in DOMAIN srvSections}

SrvClose(b) == [b EXCEPT !.is_active = FALSE, !.deactivated_at = TRUE]

\* PATCH /documents/{id}/bindings/{bindingId} {is_active:false}
SrvUpdateSectionBinding(i) ==
    /\ ops[i].pc = "updateSectionBinding"
    /\ ops[i].resp = "pending"
    /\ srvBindings' = [k \in DOMAIN srvBindings |->
                         IF srvBindings[k].id = ops[i].binding
                         THEN SrvClose(srvBindings[k]) ELSE srvBindings[k]]
    /\ ops' = [ops EXCEPT ![i].resp = "ok"]
    /\ UNCHANGED <<client, last, srvContent, srvSections, nextId>>
    /\ UNCHANGED <<deactivateCalls, ui>>

\* POST /documents/{id}/sections/{sectionId}/bindings
SrvCreateSectionBinding(i) ==
    /\ ops[i].pc = "createSectionBinding"
    /\ ops[i].resp = "pending"
    /\ ops[i].sectionId \in SrvSectionIds
    /\ nextId <= MaxBindings
    /\ LET b == Binding(nextId, ops[i].sectionId, ops[i].bindingType)
       IN  /\ srvBindings' = Append(srvBindings, b)
           /\ ops' = [ops EXCEPT ![i].resp = "ok", ![i].payload = b]
    /\ nextId' = nextId + 1
    /\ UNCHANGED <<client, last, srvContent, srvSections>>
    /\ UNCHANGED <<deactivateCalls, ui>>

\* an ApiClient.request that sends a failed request once more
RequestFailsAndRetries(i) ==
    /\ ops[i].pc \in {"updateSectionBinding", "createSectionBinding",
                      "updateDocument", "deleteSection",
                      "createSection", "updateSection",
                      "createDocumentVersion"}
    /\ ops[i].resp = "pending"
    /\ ops' = IF Len(ops[i].calls) < 3
              THEN [ops EXCEPT ![i].calls = Append(@, @[Len(@)])]
              ELSE [ops EXCEPT ![i].resp = "error"]
    /\ UNCHANGED <<client, last, server>>
    /\ UNCHANGED <<deactivateCalls, ui>>

\* ApiClient.request throws: the response is not ok, or fetch rejects
RequestFails(i) ==
    /\ ops[i].pc \in {"updateSectionBinding", "createSectionBinding",
                      "updateDocument", "deleteSection",
                      "createSection", "updateSection",
                      "createDocumentVersion"}
    /\ ops[i].resp = "pending"
    /\ ops' = [ops EXCEPT ![i].resp = "error"]
    /\ UNCHANGED <<client, last, server>>
    /\ UNCHANGED <<deactivateCalls, ui>>

\* ------------------------------------------------- useDocument callbacks
\* budget of binding ids: every activateSection in flight may use one
IdsLeft ==
    MaxBindings - (nextId - 1)
      - Cardinality({j \in DOMAIN ops : ops[j].kind = "activate"})

\* activateSection, up to its first await (lines 190-201)
CurrentBinding(bindings, focus) ==
    LET IsCurrent(b) == b.section_id = focus /\ b.is_active
        k == FindIndex(bindings, IsCurrent)
    IN  IF k = 0 THEN NoBinding ELSE bindings[k].id

\* activateSection without lines 193-198: the new binding is created while
\* the current one is still open
CallActivateSectionNoDeactivate(s, t) ==
    /\ IdsLeft > 0
    /\ ops' = Append(ops,
                 [IdleOp EXCEPT !.kind = "activate", !.pc = "createSectionBinding",
                                !.resp = "pending", !.sectionId = s,
                                !.bindingType = t,
                                !.binding = CurrentBinding(activeBindings,
                                                           activeSectionId),
                                !.focus = activeSectionId,
                                !.bindings = activeBindings,
                                !.calls = <<Call("createSectionBinding", s)>>])
    /\ last' = NoLast
    /\ UNCHANGED <<client, server>>
    /\ UNCHANGED <<deactivateCalls, ui>>

CallActivateSection(s, t) ==
    /\ IdsLeft > 0
    /\ LET cur == CurrentBinding(activeBindings, activeSectionId)
           api == IF cur # NoBinding THEN "updateSectionBinding"
                                    ELSE "createSectionBinding"
           tgt == IF cur # NoBinding THEN BindingRef(cur) ELSE s
       IN  ops' = Append(ops,
                     [IdleOp EXCEPT !.kind = "activate", !.pc = api,
                                    !.resp = "pending", !.sectionId = s,
                                    !.bindingType = t, !.binding = cur,
                                    !.focus = activeSectionId,
                                    !.bindings = activeBindings,
                                    !.calls = <<Call(api, tgt)>>])
    /\ deactivateCalls' = deactivateCalls
                            \cup ({CurrentBinding(activeBindings, activeSectionId)}
                                    \ {NoBinding})
    /\ last' = NoLast
    /\ UNCHANGED <<client, server>>
    /\ UNCHANGED ui

\* activateSection resumed after the deactivate call (lines 197-204)
ActivateSectionDeactivated(i) ==
    /\ ops[i].kind = "activate"
    /\ ops[i].pc = "updateSectionBinding"
    /\ ops[i].resp = "ok"
    /\ ops' = [ops EXCEPT ![i].pc = "createSectionBinding",
                          ![i].resp = "pending",
                          ![i].calls = Append(@, Call("createSectionBinding",
                                                      ops[i].sectionId))]
    /\ UNCHANGED <<client, last, server>>
    /\ UNCHANGED <<deactivateCalls, ui>>

\* the functional update of lines 206-209
AddBinding(prev, sectionId, binding) ==
    LET Keep(b) == b.section_id # sectionId \/ ~b.is_active
    IN  Append(Filter(prev, Keep), binding)

\* activateSection resumed after the create call (lines 206-212)
ActivateSectionCreated(i) ==
    /\ ops[i].kind = "activate"
    /\ ops[i].pc = "createSectionBinding"
    /\ ops[i].resp = "ok"
    /\ activeBindings' = AddBinding(activeBindings, ops[i].sectionId, ops[i].payload)
    /\ activeSectionId' = ops[i].sectionId
    /\ Settle(i, "returned", 0)
    /\ UNCHANGED <<document, sections, isLoading, error, server>>
    /\ UNCHANGED <<deactivateCalls, ui>>

\* activateSection's catch block (lines 213-217)
ActivateSectionFailed(i) ==
    /\ ops[i].kind = "activate"
    /\ ops[i].resp = "error"
    /\ Settle(i, "threw", 1)
    /\ UNCHANGED <<client, server>>
    /\ UNCHANGED <<deactivateCalls, ui>>

\* the functional update of lines 230-232
CloseBinding(prev, id) ==
    LET Close(b) == IF b.id = id THEN [b EXCEPT !.is_active = FALSE] ELSE b
    IN  Map(prev, Close)

\* binding looked up by deactivateSection (lines 225-227)
BindingOf(bindings, sectionId) ==
    LET IsOn(b) == b.section_id = sectionId /\ b.is_active
        k == FindIndex(bindings, IsOn)
    IN  IF k = 0 THEN NoBinding ELSE bindings[k].id

\* deactivateSection, up to its first await; without a binding there is no
\* await and the whole callback runs in one step (lines 223-236)
CallDeactivateSection(s) ==
    /\ LET b == BindingOf(activeBindings, s)
           op == [IdleOp EXCEPT !.kind = "deactivate", !.sectionId = s,
                                !.binding = b, !.focus = activeSectionId,
                                !.bindings = activeBindings]
       IN  IF b # NoBinding
           THEN /\ ops' = Append(ops,
                             [op EXCEPT !.pc = "updateSectionBinding",
                                        !.resp = "pending",
                                        !.calls = <<Call("updateSectionBinding",
                                                         BindingRef(b))>>])
                /\ last' = NoLast
                /\ UNCHANGED client
           ELSE /\ activeSectionId' =
                      IF activeSectionId = s THEN NoSection ELSE activeSectionId
                /\ last' = [op |-> op, outcome |-> "returned", onError |-> 0,
                             pos |-> Len(ops) + 1]
                /\ UNCHANGED <<document, sections, activeBindings, isLoading,
                               error, ops>>
    /\ deactivateCalls' = deactivateCalls
                            \cup ({BindingOf(activeBindings, s)} \ {NoBinding})
    /\ UNCHANGED server
    /\ UNCHANGED ui

\* a deactivateSection that closes the binding and keeps the focus
DeactivateSectionDoneKeepsFocus(i) ==
    /\ ops[i].kind = "deactivate"
    /\ ops[i].resp = "ok"
    /\ activeBindings' = CloseBinding(activeBindings, ops[i].binding)
    /\ Settle(i, "returned", 0)
    /\ UNCHANGED <<document, sections, activeSectionId, isLoading, error, server>>
    /\ UNCHANGED <<deactivateCalls, ui>>

\* deactivateSection resumed after the deactivate call (lines 229-236)
DeactivateSectionDone(i) ==
    /\ ops[i].kind = "deactivate"
    /\ ops[i].resp = "ok"
    /\ activeBindings' = CloseBinding(activeBindings, ops[i].binding)
    /\ activeSectionId' =
          IF ops[i].focus = ops[i].sectionId THEN NoSection ELSE activeSectionId
    /\ Settle(i, "returned", 0)
    /\ UNCHANGED <<document, sections, isLoading, error, server>>
    /\ UNCHANGED <<deactivateCalls, ui>>

\* a catch block that gives up the focus when the call has failed
DeactivateSectionFailedGoesIdle(i) ==
    /\ ops[i].kind = "deactivate"
    /\ ops[i].resp = "error"
    /\ activeSectionId' = NoSection
    /\ Settle(i, "threw", 1)
    /\ UNCHANGED <<document, sections, activeBindings, isLoading, error, server>>
    /\ UNCHANGED <<deactivateCalls, ui>>

\* deactivateSection's catch block (lines 237-241)
DeactivateSectionFailed(i) ==
    /\ ops[i].kind = "deactivate"
    /\ ops[i].resp = "error"
    /\ Settle(i, "threw", 1)
    /\ UNCHANGED <<client, server>>
    /\ UNCHANGED <<deactivateCalls, ui>>

\* ---------------------------------------------------------- loadDocument
LoadCalls ==
    <<Call("getDocument", "doc"), Call("listSections", "doc"),
      Call("getActiveBindings", "doc")>>

LoadOp ==
    [IdleOp EXCEPT !.kind = "load", !.pc = "loading", !.doc = "pending",
                   !.secs = "pending", !.binds = "pending", !.calls = LoadCalls]

\* loadDocument up to the await of Promise.all (lines 84-90); reload
CallLoadDocument ==
    /\ isLoading' = TRUE
    /\ ops' = Append(ops, LoadOp)
    /\ UNCHANGED <<document, sections, activeBindings, activeSectionId, error,
                   server>>
    /\ last' = NoLast
    /\ UNCHANGED <<deactivateCalls, ui>>

\* Promise.all rejects with the first rejection; what the other fetches
\* return after that is dropped
LoadRejected(op) == "error" \in {op.doc, op.secs, op.binds}

\* GET /documents/{id}
SrvGetDocument(i) ==
    /\ ops[i].pc = "loading"
    /\ ~LoadRejected(ops[i])
    /\ ops[i].doc = "pending"
    /\ ops' = [ops EXCEPT ![i].doc = "ok", ![i].docVal = Doc(srvContent)]
    /\ UNCHANGED <<client, last, server>>
    /\ UNCHANGED <<deactivateCalls, ui>>

\* GET /documents/{id}/sections
SrvListSections(i) ==
    /\ ops[i].pc = "loading"
    /\ ~LoadRejected(ops[i])
    /\ ops[i].secs = "pending"
    /\ ops' = [ops EXCEPT ![i].secs = "ok", ![i].secsVal = srvSections]
    /\ UNCHANGED <<client, last, server>>
    /\ UNCHANGED <<deactivateCalls, ui>>

\* GET /documents/{id}/active-bindings
SrvActive(b) == b.is_active

SrvGetActiveBindings(i) ==
    /\ ops[i].pc = "loading"
    /\ ~LoadRejected(ops[i])
    /\ ops[i].binds = "pending"
    /\ ops' = [ops EXCEPT ![i].binds = "ok",
                          ![i].bindsVal = Filter(srvBindings, SrvActive)]
    /\ UNCHANGED <<client, last, server>>
    /\ UNCHANGED <<deactivateCalls, ui>>

\* one of the three fetches of loadDocument rejects
FetchFails(i) ==
    /\ ops[i].pc = "loading"
    /\ ~LoadRejected(ops[i])
    /\ \/ ops[i].doc = "pending" /\ ops' = [ops EXCEPT ![i].doc = "error"]
       \/ ops[i].secs = "pending" /\ ops' = [ops EXCEPT ![i].secs = "error"]
       \/ ops[i].binds = "pending" /\ ops' = [ops EXCEPT ![i].binds = "error"]
    /\ UNCHANGED <<client, last, server>>
    /\ UNCHANGED <<deactivateCalls, ui>>

LoadFulfilled(op) == op.doc = "ok" /\ op.secs = "ok" /\ op.binds = "ok"

\* Promise.all fulfilled: lines 91-94 and the finally block
LoadDocumentLoaded(i) ==
    /\ ops[i].pc = "loading"
    /\ LoadFulfilled(ops[i])
    /\ document' = ops[i].docVal
    /\ sections' = ops[i].secsVal
    /\ activeBindings' = ops[i].bindsVal
    /\ error' = FALSE
    /\ isLoading' = FALSE
    /\ Settle(i, "returned", 0)
    /\ UNCHANGED <<activeSectionId, server>>
    /\ UNCHANGED <<deactivateCalls, ui>>

\* a load that keeps what it fetched of a failed Promise.all
LoadDocumentFailedPartial(i) ==
    /\ ops[i].pc = "loading"
    /\ LoadRejected(ops[i])
    /\ document' = IF ops[i].doc = "ok" THEN ops[i].docVal ELSE document
    /\ sections' = IF ops[i].secs = "ok" THEN ops[i].secsVal ELSE sections
    /\ activeBindings' = IF ops[i].binds = "ok" THEN ops[i].bindsVal
                                                ELSE activeBindings
    /\ error' = TRUE
    /\ isLoading' = FALSE
    /\ Settle(i, "returned", 1)
    /\ UNCHANGED <<activeSectionId, server>>
    /\ UNCHANGED <<deactivateCalls, ui>>

\* Promise.all rejected with the first rejection: the catch block
\* (lines 95-98) and the finally block
LoadDocumentFailed(i) ==
    /\ ops[i].pc = "loading"
    /\ LoadRejected(ops[i])
    /\ error' = TRUE
    /\ isLoading' = FALSE
    /\ Settle(i, "returned", 1)
    /\ UNCHANGED <<document, sections, activeBindings, activeSectionId, server>>
    /\ UNCHANGED <<deactivateCalls, ui>>

\* --------------------------------------------------------- updateContent
\* updateContent up to its await (lines 110-112)
CallUpdateContent(c) ==
    /\ ops' = Append(ops,
                 [IdleOp EXCEPT !.kind = "updateContent", !.pc = "updateDocument",
                                !.resp = "pending", !.content = c,
                                !.calls = <<Call("updateDocument", "doc")>>])
    /\ last' = NoLast
    /\ UNCHANGED <<client, server>>
    /\ UNCHANGED <<deactivateCalls, ui>>

\* PATCH /documents/{id} {content}
SrvUpdateDocument(i) ==
    /\ ops[i].pc = "updateDocument"
    /\ ops[i].resp = "pending"
    /\ srvContent' = ops[i].content
    /\ ops' = [ops EXCEPT ![i].resp = "ok"]
    /\ UNCHANGED <<client, last, srvSections, srvBindings, nextId>>
    /\ UNCHANGED <<deactivateCalls, ui>>

\* the functional update of line 113
SetContent(prev, c) == IF prev.loaded THEN [prev EXCEPT !.content = c] ELSE NoDoc

\* updateContent resumed after the call (lines 113-114)
UpdateContentDone(i) ==
    /\ ops[i].kind = "updateContent"
    /\ ops[i].resp = "ok"
    /\ document' = SetContent(document, ops[i].content)
    /\ Settle(i, "returned", 0)
    /\ UNCHANGED <<sections, activeBindings, activeSectionId, isLoading, error,
                   server>>
    /\ UNCHANGED <<deactivateCalls, ui>>

\* a catch block that keeps the attempted content
UpdateContentFailedKeepsPayload(i) ==
    /\ ops[i].kind = "updateContent"
    /\ ops[i].resp = "error"
    /\ document' = SetContent(document, ops[i].content)
    /\ Settle(i, "threw", 1)
    /\ UNCHANGED <<sections, activeBindings, activeSectionId, isLoading, error,
                   server>>
    /\ UNCHANGED <<deactivateCalls, ui>>

\* updateContent's catch block (lines 115-118)
UpdateContentFailed(i) ==
    /\ ops[i].kind = "updateContent"
    /\ ops[i].resp = "error"
    /\ Settle(i, "threw", 1)
    /\ UNCHANGED <<client, server>>
    /\ UNCHANGED <<deactivateCalls, ui>>

\* --------------------------------------------------------- createVersion
\* createVersion up to its await (lines 126-128)
CallCreateVersion ==
    /\ ops' = Append(ops,
                 [IdleOp EXCEPT !.kind = "createVersion",
                                !.pc = "createDocumentVersion",
                                !.resp = "pending",
                                !.calls = <<Call("createDocumentVersion", "doc")>>])
    /\ last' = NoLast
    /\ UNCHANGED <<client, server>>
    /\ UNCHANGED <<deactivateCalls, ui>>

\* POST /documents/{id}/versions: a snapshot is stored; the client never
\* reads the snapshots back
SrvCreateDocumentVersion(i) ==
    /\ ops[i].pc = "createDocumentVersion"
    /\ ops[i].resp = "pending"
    /\ ops' = [ops EXCEPT ![i].resp = "ok"]
    /\ UNCHANGED <<client, last, server>>
    /\ UNCHANGED <<deactivateCalls, ui>>

\* createVersion resumed after the call (line 128)
CreateVersionDone(i) ==
    /\ ops[i].kind = "createVersion"
    /\ ops[i].resp = "ok"
    /\ Settle(i, "returned", 0)
    /\ UNCHANGED <<client, server>>
    /\ UNCHANGED <<deactivateCalls, ui>>

\* a catch block that neither reports nor rethrows
CreateVersionFailedSilently(i) ==
    /\ ops[i].kind = "createVersion"
    /\ ops[i].resp = "error"
    /\ Settle(i, "returned", 0)
    /\ UNCHANGED <<client, server>>
    /\ UNCHANGED <<deactivateCalls, ui>>

\* createVersion's catch block (lines 129-133)
CreateVersionFailed(i) ==
    /\ ops[i].kind = "createVersion"
    /\ ops[i].resp = "error"
    /\ Settle(i, "threw", 1)
    /\ UNCHANGED <<client, server>>
    /\ UNCHANGED <<deactivateCalls, ui>>

\* --------------------------------------------------------- deleteSection
\* deleteSection up to its await (lines 172-174)
CallDeleteSection(s) ==
    /\ ops' = Append(ops,
                 [IdleOp EXCEPT !.kind = "deleteSection", !.pc = "deleteSection",
                                !.resp = "pending", !.sectionId = s,
                                !.focus = activeSectionId,
                                !.calls = <<Call("deleteSection", s)>>])
    /\ last' = NoLast
    /\ UNCHANGED <<client, server>>
    /\ UNCHANGED <<deactivateCalls, ui>>

\* DELETE /documents/{id}/sections/{sectionId}: the row is removed and the
\* bindings that point at it are closed first
SrvDeleteSection(i) ==
    /\ ops[i].pc = "deleteSection"
    /\ ops[i].resp = "pending"
    /\ ops[i].sectionId \in SrvSectionIds
    /\ LET Other(s) == s.id # ops[i].sectionId
       IN  srvSections' = Filter(srvSections, Other)
    /\ srvBindings' = [k \in DOMAIN srvBindings |->
                         IF srvBindings[k].section_id = ops[i].sectionId
                            /\ srvBindings[k].is_active
                         THEN SrvClose(srvBindings[k]) ELSE srvBindings[k]]
    /\ ops' = [ops EXCEPT ![i].resp = "ok"]
    /\ UNCHANGED <<client, last, srvContent, nextId>>
    /\ UNCHANGED <<deactivateCalls, ui>>

\* the functional update of line 175
RemoveSection(prev, sectionId) ==
    LET Other(s) == s.id # sectionId
    IN  Filter(prev, Other)

\* deleteSection resumed after the call (lines 175-178)
DeleteSectionDone(i) ==
    /\ ops[i].kind = "deleteSection"
    /\ ops[i].resp = "ok"
    /\ sections' = RemoveSection(sections, ops[i].sectionId)
    /\ activeSectionId' =
          IF ops[i].focus = ops[i].sectionId THEN NoSection ELSE activeSectionId
    /\ Settle(i, "returned", 0)
    /\ UNCHANGED <<document, activeBindings, isLoading, error, server>>
    /\ UNCHANGED <<deactivateCalls, ui>>

\* deleteSection's catch block (lines 179-183)
DeleteSectionFailed(i) ==
    /\ ops[i].kind = "deleteSection"
    /\ ops[i].resp = "error"
    /\ Settle(i, "threw", 1)
    /\ UNCHANGED <<client, server>>
    /\ UNCHANGED <<deactivateCalls, ui>>

\* --------------------------------------------------------- createSection
\* the data of createSection and of updateSection: parent_id and order
SectionData(parent, ord) == [parent_id |-> parent, order |-> ord]

\* createSection up to its await (lines 140-142)
CallCreateSection(parent, ord) ==
    /\ ops' = Append(ops,
                 [IdleOp EXCEPT !.kind = "createSection", !.pc = "createSection",
                                !.resp = "pending",
                                !.data = SectionData(parent, ord),
                                !.calls = <<Call("createSection", parent)>>])
    /\ last' = NoLast
    /\ UNCHANGED <<client, server>>
    /\ UNCHANGED <<deactivateCalls, ui>>

\* POST /documents/{id}/sections: a row with a new id, one the client could
\* not name as the parent, is appended
SrvCreateSection(i) ==
    /\ ops[i].pc = "createSection"
    /\ ops[i].resp = "pending"
    /\ Len(srvSections) < MaxSections
    /\ \E id \in NewSectionIds \ (SrvSectionIds \cup {ops[i].data.parent_id}) :
         LET row == Section(id, ops[i].data.parent_id, ops[i].data.order)
         IN  /\ srvSections' = Append(srvSections, row)
             /\ ops' = [ops EXCEPT ![i].resp = "ok", ![i].section = row]
    /\ UNCHANGED <<client, last, srvContent, srvBindings, nextId>>
    /\ UNCHANGED <<deactivateCalls, ui>>

\* createSection resumed after the call (lines 143-144)
CreateSectionDone(i) ==
    /\ ops[i].kind = "createSection"
    /\ ops[i].resp = "ok"
    /\ sections' = Append(sections, ops[i].section)
    /\ Settle(i, "returned", 0)
    /\ UNCHANGED <<document, activeBindings, activeSectionId, isLoading, error,
                   server>>
    /\ UNCHANGED <<deactivateCalls, ui>>

\* createSection that keeps an inserted row after the call has failed
CreateSectionFailedKeepsRow(i) ==
    /\ ops[i].kind = "createSection"
    /\ ops[i].resp = "error"
    /\ sections' = Append(sections,
                          Section("s3", ops[i].data.parent_id, ops[i].data.order))
    /\ Settle(i, "threw", 1)
    /\ UNCHANGED <<document, activeBindings, activeSectionId, isLoading, error,
                   server>>
    /\ UNCHANGED <<deactivateCalls, ui>>

\* createSection's catch block (lines 145-149)
CreateSectionFailed(i) ==
    /\ ops[i].kind = "createSection"
    /\ ops[i].resp = "error"
    /\ Settle(i, "threw", 1)
    /\ UNCHANGED <<client, server>>
    /\ UNCHANGED <<deactivateCalls, ui>>

\* --------------------------------------------------------- updateSection
\* updateSection up to its await (lines 155-157)
CallUpdateSection(s, data) ==
    /\ ops' = Append(ops,
                 [IdleOp EXCEPT !.kind = "updateSection", !.pc = "updateSection",
                                !.resp = "pending", !.sectionId = s,
                                !.data = data,
                                !.calls = <<Call("updateSection", s)>>])
    /\ last' = NoLast
    /\ UNCHANGED <<client, server>>
    /\ UNCHANGED <<deactivateCalls, ui>>

\* the row with the fields of the data written over it
SrvApply(row, data) ==
    [row EXCEPT !.parent_id = IF data.parent_id = Undefined THEN @
                              ELSE data.parent_id,
                !.order = IF data.order = NoOrder THEN @ ELSE data.order]

\* PATCH /documents/{id}/sections/{sectionId}: the row is updated and returned
SrvUpdateSection(i) ==
    /\ ops[i].pc = "updateSection"
    /\ ops[i].resp = "pending"
    /\ \E k \in DOMAIN srvSections :
         /\ srvSections[k].id = ops[i].sectionId
         /\ LET row == SrvApply(srvSections[k], ops[i].data)
            IN  /\ srvSections' = [srvSections EXCEPT ![k] = row]
                /\ ops' = [ops EXCEPT ![i].resp = "ok", ![i].section = row]
    /\ UNCHANGED <<client, last, srvContent, srvBindings, nextId>>
    /\ UNCHANGED <<deactivateCalls, ui>>

\* the functional update of lines 158-160: { ...s, ...updated }
MergeSection(prev, sectionId, updated) ==
    LET Merge(s) == IF s.id = sectionId
                    THEN [f \in DOMAIN s |-> IF f \in DOMAIN updated
                                            THEN updated[f] ELSE s[f]]
                    ELSE s
    IN  Map(prev, Merge)

\* updateSection resumed after the call (lines 158-161)
UpdateSectionDone(i) ==
    /\ ops[i].kind = "updateSection"
    /\ ops[i].resp = "ok"
    /\ sections' = MergeSection(sections, ops[i].sectionId, ops[i].section)
    /\ Settle(i, "returned", 0)
    /\ UNCHANGED <<document, activeBindings, activeSectionId, isLoading, error,
                   server>>
    /\ UNCHANGED <<deactivateCalls, ui>>

\* updateSection's catch block (lines 162-166)
UpdateSectionFailed(i) ==
    /\ ops[i].kind = "updateSection"
    /\ ops[i].resp = "error"
    /\ Settle(i, "threw", 1)
    /\ UNCHANGED <<client, server>>
    /\ UNCHANGED <<deactivateCalls, ui>>

\* ---------------------------------------------------------- SectionPanel
\* !s.parent_id: the parent is null, undefined or the empty string
NoParent(s) == s.parent_id \in {NoSection, ""}

\* Array.prototype.sort is stable: with (a, b) => a.order - b.order a row
\* goes behind the rows of a smaller or equal order that precede it
InsertBeforeEqual(sorted, x) ==
    SelectSeq(sorted, LAMBDA r : r.order < x.order)
      \o <<x>> \o SelectSeq(sorted, LAMBDA r : r.order >= x.order)

InsertByOrder(sorted, x) ==
    SelectSeq(sorted, LAMBDA r : r.order <= x.order)
      \o <<x>> \o SelectSeq(sorted, LAMBDA r : r.order > x.order)

RECURSIVE SortByOrder(_)
SortByOrder(s) ==
    IF s = <<>> THEN <<>>
    ELSE InsertByOrder(SortByOrder(SubSeq(s, 1, Len(s) - 1)), s[Len(s)])

\* rootSections (line 80) as it is rendered (lines 257-259)
RootSections(list) == SortByOrder(SelectSeq(list, NoParent))

\* getChildren (lines 81-82)
GetChildren(list, parentId) ==
    SortByOrder(SelectSeq(list, LAMBDA r : r.parent_id = parentId))

\* one render of the panel: the roots, and the children of every section
Project(list) ==
    [roots |-> RootSections(list),
     children |-> [id \in AllSectionIds |-> GetChildren(list, id)]]

\* expandedSections.has(section.id) (line 87); the mutant takes every section
\* for expanded
IsExpandedAlways(expanded, id) == TRUE

IsExpanded(expanded, id) == id \in expanded

\* what the engine throws when the calls nest deeper than its stack
RangeError == "RangeError"

\* renderSection (lines 84-235) and the two maps that call it (lines 229-231
\* and 257-259): the ids of the sections it is called for, in the order of
\* the calls.  A section is rendered, and its children after it when it has
\* some and is expanded.  Over a list of distinct ids the calls nest at most
\* Len(list) deep; deeper nesting never returns and ends in a RangeError.
RECURSIVE RenderSection(_, _, _, _)
RECURSIVE RenderAll(_, _, _, _)
RenderSection(section, list, expanded, depth) ==
    IF depth > Len(list) THEN <<RangeError>>
    ELSE LET children == GetChildren(list, section.id)
             hasChildren == Len(children) > 0
             isExpanded == IsExpanded(expanded, section.id)
         IN  <<section.id>>
               \o (IF hasChildren /\ isExpanded
                   THEN RenderAll(children, list, expanded, depth + 1)
                   ELSE <<>>)

RenderAll(rows, list, expanded, depth) ==
    IF rows = <<>> THEN <<>>
    ELSE RenderSection(Head(rows), list, expanded, depth)
           \o RenderAll(Tail(rows), list, expanded, depth)

\* the traversal of one render, from the root sections (lines 257-259)
Visit(list, expanded) == RenderAll(RootSections(list), list, expanded, 0)

\* toggleExpanded (lines 60-70); the state change renders the panel again
\* over the same props.  The mutant sorts the `sections` prop itself.
ToggleExpandedSortsInput(id) ==
    /\ expandedSections' = IF id \in expandedSections
                           THEN expandedSections \ {id}
                           ELSE expandedSections \cup {id}
    /\ panelSections' = SortByOrder(panelSections)
    /\ rendered' = Project(panelSections')
    /\ visited' = Visit(panelSections', expandedSections')
    /\ UNCHANGED <<panelPrev, hook, presence, chat>>

ToggleExpanded(id) ==
    /\ expandedSections' = IF id \in expandedSections
                           THEN expandedSections \ {id}
                           ELSE expandedSections \cup {id}
    /\ panelSections' = panelSections
    /\ rendered' = Project(panelSections)
    /\ visited' = Visit(panelSections, expandedSections')
    /\ UNCHANGED <<panelPrev, hook, presence, chat>>

\* two rows are siblings: both are roots, or they have the same parent
Siblings(a, b) ==
    \/ NoParent(a) /\ NoParent(b)
    \/ ~NoParent(a) /\ a.parent_id = b.parent_id

\* the parent passes a list in which two siblings have exchanged their
\* `order`; the panel is rendered over the new props
SwapOrders(j, k) ==
    /\ j < k
    /\ Siblings(panelSections[j], panelSections[k])
    /\ panelSections' = [panelSections EXCEPT ![j].order = panelSections[k].order,
                                              ![k].order = panelSections[j].order]
    /\ panelPrev' = panelSections
    /\ rendered' = Project(panelSections')
    /\ visited' = Visit(panelSections', expandedSections)
    /\ UNCHANGED <<expandedSections, hook, presence, chat>>

PanelUnmounted ==
    /\ panelSections = <<>>
    /\ panelPrev = <<>>
    /\ expandedSections = {}
    /\ rendered = Project(<<>>)
    /\ visited = <<>>

\* ------------------------------------------------- CollaborationCursors
\* presence.cursor is null, or a position {x, y}
NoCursor == <<>>
Positions == {<<0, 0>>, <<1, 0>>}
Cursors == Positions \cup {NoCursor}
ConnectionIds == 1..MaxOthers
InfoOf(id) == [name |-> "u" \o ToString(id)]

\* a component that draws a participant without a cursor at the origin
CollaborationCursorsDrawsAll(o) ==
    LET Element(other) ==
            [key |-> other.connectionId,
             x |-> IF other.presence.cursor = NoCursor THEN 0
                   ELSE other.presence.cursor[1],
             y |-> IF other.presence.cursor = NoCursor THEN 0
                   ELSE other.presence.cursor[2],
             name |-> other.info.name]
    IN  Map(o, Element)

\* CollaborationCursors (lines 21-67): others.map gives null for a
\* participant without a cursor, which React does not render, and for the
\* others one element keyed by connectionId and translated to the cursor
CollaborationCursors(o) ==
    LET HasCursor(other) == other.presence.cursor # NoCursor
        Element(other) ==
            [key |-> other.connectionId,
             x |-> other.presence.cursor[1],
             y |-> other.presence.cursor[2],
             name |-> other.info.name]
    IN  Map(SelectSeq(o, HasCursor), Element)

\* useSelf(): the local participant
Self == [id |-> 0, info |-> InfoOf(0), presence |-> [cursor |-> NoCursor]]

\* useCollaborators (lines 69-88)
UseCollaborators(o) ==
    LET Collaborator(other) ==
            [id |-> other.connectionId, info |-> other.info,
             presence |-> other.presence]
    IN  [others |-> Map(o, Collaborator), self |-> Self, count |-> Len(o) + 1]

\* useOthers() gives a new array: both readers are rendered again
RenderPresence(o) ==
    /\ others' = o
    /\ cursorList' = CollaborationCursors(o)
    /\ collaborators' = UseCollaborators(o)
    /\ UNCHANGED <<hook, panel, chat>>

\* a participant enters the room; the initial presence has no cursor
OtherEnters(id) ==
    /\ Len(others) < MaxOthers
    /\ \A k \in DOMAIN others : others[k].connectionId # id
    /\ RenderPresence(Append(others, [connectionId |-> id,
                                       presence |-> [cursor |-> NoCursor],
                                       info |-> InfoOf(id)]))

OtherLeaves(k) == RenderPresence(Remove(others, k))

\* a participant moves the pointer, or the pointer leaves the editor
PresenceUpdated(k, cursor) ==
    /\ others[k].presence.cursor # cursor
    /\ RenderPresence([others EXCEPT ![k].presence.cursor = cursor])

NoPresence ==
    /\ others = <<>>
    /\ cursorList = CollaborationCursors(<<>>)
    /\ collaborators = UseCollaborators(<<>>)

\* ------------------------------------------------------------ ChatPanel
Inputs == {"", " ", "hi", " hi "}

\* String.prototype.trim over the inputs
Trim(text) ==
    CASE text = " " -> ""
      [] text = " hi " -> "hi"
      [] OTHER -> text

\* useAI's streaming flag: only sendMessageStream sets it (useAI.ts, lines
\* 32-58), and the panel never calls sendMessageStream
streaming == FALSE

Message(role, content) == [role |-> role, content |-> content]

\* onChange of the input (line 122), which is disabled while a send is
\* pending (line 124)
SetInput(text) ==
    /\ ~(chatIsLoading \/ streaming)
    /\ input' = text
    /\ UNCHANGED <<chatIsLoading, messages, sending, aiError>>
    /\ UNCHANGED <<hook, panel, presence>>

\* handleSubmit up to its await (lines 35-56) with sendMessage up to its
\* await (useAI.ts, lines 17-21): the submit event of the form
HandleSubmit ==
    /\ Len(messages) + 2 <= MaxMessages
    /\ IF Trim(input) = "" \/ chatIsLoading
       THEN UNCHANGED chat
       ELSE /\ input' = ""
            /\ chatIsLoading' = TRUE
            /\ messages' = Append(messages, Message("user", Trim(input)))
            /\ aiError' = FALSE
            /\ sending' = Append(sending, [message |-> Trim(input),
                                           resp |-> "pending"])
    /\ UNCHANGED <<hook, panel, presence>>

\* the backend answers the chat request
SrvSendMessage(i) ==
    /\ sending[i].resp = "pending"
    /\ sending' = [sending EXCEPT ![i].resp = "ok"]
    /\ UNCHANGED <<input, chatIsLoading, messages, aiError>>
    /\ UNCHANGED <<hook, panel, presence>>

\* ApiClient.request throws (part_005, lines 55-58)
SendMessageRequestFails(i) ==
    /\ sending[i].resp = "pending"
    /\ sending' = [sending EXCEPT ![i].resp = "error"]
    /\ UNCHANGED <<input, chatIsLoading, messages, aiError>>
    /\ UNCHANGED <<hook, panel, presence>>

\* sendMessage returns the response (useAI.ts, lines 21-23) and handleSubmit
\* resumes (lines 56-64)
SendMessageDone(i) ==
    /\ sending[i].resp = "ok"
    /\ messages' = Append(messages, Message("assistant", "reply"))
    /\ chatIsLoading' = FALSE
    /\ sending' = Remove(sending, i)
    /\ UNCHANGED <<input, aiError>>
    /\ UNCHANGED <<hook, panel, presence>>

\* a handleSubmit that resets the flag only after a response
SendMessageFailedStaysPending(i) ==
    /\ sending[i].resp = "error"
    /\ aiError' = TRUE
    /\ sending' = Remove(sending, i)
    /\ UNCHANGED <<input, chatIsLoading, messages>>
    /\ UNCHANGED <<hook, panel, presence>>

\* sendMessage catches the error, sets it and returns null (useAI.ts, lines
\* 24-27); handleSubmit resumes without a response (lines 56-64)
SendMessageFailed(i) ==
    /\ sending[i].resp = "error"
    /\ aiError' = TRUE
    /\ chatIsLoading' = FALSE
    /\ sending' = Remove(sending, i)
    /\ UNCHANGED <<input, messages>>
    /\ UNCHANGED <<hook, panel, presence>>

NoChat ==
    /\ input = ""
    /\ chatIsLoading = FALSE
    /\ messages = <<>>
    /\ sending = <<>>
    /\ aiError = FALSE

\* ------------------------------------------------------- specification
\* The hook right after mount: the useState defaults (lines 75-80) and the
\* loadDocument started by the effect of lines 104-106.  The backend holds
\* the document and its two sections.
InitSections == <<Section("s1", NoSection, 0), Section("s2", "s1", 0)>>

Mounted ==
    /\ document = NoDoc
    /\ sections = <<>>
    /\ activeBindings = <<>>
    /\ activeSectionId = NoSection
    /\ isLoading = TRUE
    /\ error = FALSE
    /\ ops = <<LoadOp>>
    /\ last = NoLast

Init ==
    /\ Mounted
    /\ PanelUnmounted
    /\ NoPresence
    /\ NoChat
    /\ deactivateCalls = {}
    /\ srvContent = "c1"
    /\ srvSections = InitSections
    /\ srvBindings = <<>>
    /\ nextId = 1

\* the page is opened again: the hook is mounted anew over the same backend
Remount ==
    /\ document' = NoDoc
    /\ sections' = <<>>
    /\ activeBindings' = <<>>
    /\ activeSectionId' = NoSection
    /\ isLoading' = TRUE
    /\ error' = FALSE
    /\ ops' = <<LoadOp>>
    /\ last' = NoLast
    /\ UNCHANGED server
    /\ UNCHANGED <<deactivateCalls, ui>>

\* The callbacks are called one after the other: the caller awaits the
\* promise of a callback before it calls the next one.
NoneInFlight == ops = <<>>

\* the callbacks of the binding ledger and of the section list, with the load
BindingsNext ==
    \/ NoneInFlight /\ Remount
    \/ NoneInFlight /\ CallLoadDocument
    \/ NoneInFlight /\ \E s \in SectionIds : CallDeleteSection(s)
    \/ NoneInFlight /\ \E s \in SectionIds, t \in BindingTypes : CallActivateSection(s, t)
    \/ NoneInFlight /\ \E s \in SectionIds : CallDeactivateSection(s)
    \/ \E i \in DOMAIN ops :
        \/ SrvGetDocument(i)
        \/ SrvListSections(i)
        \/ SrvGetActiveBindings(i)
        \/ FetchFails(i)
        \/ LoadDocumentLoaded(i)
        \/ LoadDocumentFailed(i)
        \/ SrvDeleteSection(i)
        \/ DeleteSectionDone(i)
        \/ DeleteSectionFailed(i)
        \/ SrvUpdateSectionBinding(i)
        \/ SrvCreateSectionBinding(i)
        \/ RequestFails(i)
        \/ ActivateSectionDeactivated(i)
        \/ ActivateSectionCreated(i)
        \/ ActivateSectionFailed(i)
        \/ DeactivateSectionDone(i)
        \/ DeactivateSectionFailed(i)

Spec == Init /\ [][BindingsNext]_vars

\* The callbacks of the document content, with the load; a callback can be
\* called while fewer than MaxInFlight others are suspended at their await.
CanCall == Len(ops) < MaxInFlight

ContentNext ==
    \/ NoneInFlight /\ Remount
    \/ CanCall /\ CallLoadDocument
    \/ CanCall /\ \E c \in Contents : CallUpdateContent(c)
    \/ \E i \in DOMAIN ops :
        \/ SrvGetDocument(i)
        \/ SrvListSections(i)
        \/ SrvGetActiveBindings(i)
        \/ FetchFails(i)
        \/ LoadDocumentLoaded(i)
        \/ LoadDocumentFailed(i)
        \/ SrvUpdateDocument(i)
        \/ RequestFails(i)
        \/ UpdateContentDone(i)
        \/ UpdateContentFailed(i)

SpecContent == Init /\ [][ContentNext]_vars

\* The callbacks of the section list, called one after the other, after the
\* load of the mount.
SectionParents == AllSectionIds \cup {NoSection}

SectionDatas ==
    {SectionData(p, NoOrder) : p \in SectionParents}
      \cup {SectionData(Undefined, o) : o \in Orders}

SectionsNext ==
    \/ NoneInFlight /\ \E p \in SectionParents, o \in Orders : CallCreateSection(p, o)
    \/ NoneInFlight /\ \E s \in AllSectionIds, d \in SectionDatas : CallUpdateSection(s, d)
    \/ NoneInFlight /\ \E s \in AllSectionIds : CallDeleteSection(s)
    \/ \E i \in DOMAIN ops :
        \/ SrvGetDocument(i)
        \/ SrvListSections(i)
        \/ SrvGetActiveBindings(i)
        \/ FetchFails(i)
        \/ LoadDocumentLoaded(i)
        \/ LoadDocumentFailed(i)
        \/ SrvCreateSection(i)
        \/ CreateSectionDone(i)
        \/ CreateSectionFailed(i)
        \/ SrvUpdateSection(i)
        \/ UpdateSectionDone(i)
        \/ UpdateSectionFailed(i)
        \/ SrvDeleteSection(i)
        \/ DeleteSectionDone(i)
        \/ DeleteSectionFailed(i)
        \/ RequestFails(i)

SpecSections == Init /\ [][SectionsNext]_vars

\* The callbacks of the binding ledger called the way the section panel's
\* buttons call them: every listed section has its button, and a click calls
\* the callback whether or not an earlier one is still suspended at its await.
Listed(s) == \E k \in DOMAIN sections : sections[k].id = s

OverlapNext ==
    \/ CanCall /\ \E s \in SectionIds, t \in BindingTypes :
                     Listed(s) /\ CallActivateSection(s, t)
    \/ CanCall /\ \E s \in SectionIds : Listed(s) /\ CallDeactivateSection(s)
    \/ \E i \in DOMAIN ops :
        \/ SrvGetDocument(i)
        \/ SrvListSections(i)
        \/ SrvGetActiveBindings(i)
        \/ FetchFails(i)
        \/ LoadDocumentLoaded(i)
        \/ LoadDocumentFailed(i)
        \/ SrvUpdateSectionBinding(i)
        \/ SrvCreateSectionBinding(i)
        \/ RequestFails(i)
        \/ ActivateSectionDeactivated(i)
        \/ ActivateSectionCreated(i)
        \/ ActivateSectionFailed(i)
        \/ DeactivateSectionDone(i)
        \/ DeactivateSectionFailed(i)

SpecOverlap == Init /\ [][OverlapNext]_vars

\* Every mutating callback of the hook, called one after the other after the
\* load of the mount; new sections are roots, updateSection changes the order,
\* bindings are discussions.
MutationsNext ==
    \/ NoneInFlight /\ \E c \in Contents : CallUpdateContent(c)
    \/ NoneInFlight /\ CallCreateVersion
    \/ NoneInFlight /\ CallCreateSection(NoSection, 0)
    \/ NoneInFlight /\ \E s \in SectionIds, o \in Orders :
                          CallUpdateSection(s, SectionData(Undefined, o))
    \/ NoneInFlight /\ \E s \in SectionIds : CallDeleteSection(s)
    \/ NoneInFlight /\ \E s \in SectionIds : CallActivateSection(s, "discussion")
    \/ NoneInFlight /\ \E s \in SectionIds : CallDeactivateSection(s)
    \/ NoneInFlight /\ CallLoadDocument
    \/ \E i \in DOMAIN ops :
        \/ SrvGetDocument(i)
        \/ SrvListSections(i)
        \/ SrvGetActiveBindings(i)
        \/ FetchFails(i)
        \/ LoadDocumentLoaded(i)
        \/ LoadDocumentFailed(i)
        \/ SrvUpdateDocument(i)
        \/ UpdateContentDone(i)
        \/ UpdateContentFailed(i)
        \/ SrvCreateDocumentVersion(i)
        \/ CreateVersionDone(i)
        \/ CreateVersionFailed(i)
        \/ SrvCreateSection(i)
        \/ CreateSectionDone(i)
        \/ CreateSectionFailed(i)
        \/ SrvUpdateSection(i)
        \/ UpdateSectionDone(i)
        \/ UpdateSectionFailed(i)
        \/ SrvDeleteSection(i)
        \/ DeleteSectionDone(i)
        \/ DeleteSectionFailed(i)
        \/ SrvUpdateSectionBinding(i)
        \/ SrvCreateSectionBinding(i)
        \/ RequestFails(i)
        \/ ActivateSectionDeactivated(i)
        \/ ActivateSectionCreated(i)
        \/ ActivateSectionFailed(i)
        \/ DeactivateSectionDone(i)
        \/ DeactivateSectionFailed(i)

SpecMutations == Init /\ [][MutationsNext]_vars

\* The section panel over a list of sections: up to MaxSections rows with
\* distinct ids, any parent and any order; the panel has rendered once.
TreeParents == AllSectionIds \cup {NoSection, ""}

TreeInit ==
    /\ document = NoDoc
    /\ sections = <<>>
    /\ activeBindings = <<>>
    /\ activeSectionId = NoSection
    /\ isLoading = FALSE
    /\ error = FALSE
    /\ ops = <<>>
    /\ last = NoLast
    /\ srvContent = "c1"
    /\ srvSections = <<>>
    /\ srvBindings = <<>>
    /\ nextId = 1
    /\ \E n \in 1..MaxSections :
         \E ids \in [1..n -> AllSectionIds], ps \in [1..n -> TreeParents],
            os \in [1..n -> Orders] :
           /\ \A j, k \in 1..n : j # k => ids[j] # ids[k]
           /\ panelSections = [k \in 1..n |-> Section(ids[k], ps[k], os[k])]
    /\ panelPrev = <<>>
    /\ expandedSections = {}
    /\ rendered = Project(panelSections)
    /\ visited = Visit(panelSections, expandedSections)
    /\ NoPresence
    /\ NoChat
    /\ deactivateCalls = {}

TreeNext ==
    \/ \E id \in AllSectionIds : ToggleExpanded(id)
    \/ \E j, k \in DOMAIN panelSections : SwapOrders(j, k)

SpecTree == TreeInit /\ [][TreeNext]_vars

\* The room's presence: participants enter, move their pointer and leave.
PresenceNext ==
    \/ \E id \in ConnectionIds : OtherEnters(id)
    \/ \E k \in DOMAIN others : OtherLeaves(k)
    \/ \E k \in DOMAIN others, cursor \in Cursors : PresenceUpdated(k, cursor)

SpecPresence == Init /\ [][PresenceNext]_vars

\* The chat panel: the user types and submits, the sends settle.
ChatNext ==
    \/ \E text \in Inputs : SetInput(text)
    \/ HandleSubmit
    \/ \E i \in DOMAIN sending :
        \/ SrvSendMessage(i)
        \/ SendMessageRequestFails(i)
        \/ SendMessageDone(i)
        \/ SendMessageFailed(i)

SpecChat == Init /\ [][ChatNext]_vars

\* ------------------------------------------------------------ the claims
LedgerActive == ActiveIn(activeBindings)

DeactivateCall(op) == Call("updateSectionBinding", BindingRef(op.binding))

CreateCall(op) == Call("createSectionBinding", op.sectionId)

\* activateSection(B) called while focused on A # B with an active binding
IsSwitch(op) ==
    op.kind = "activate" /\ op.binding # NoBinding /\ op.focus # op.sectionId

\* activateSection(S) called while focused on S with an active binding
IsRebind(op) ==
    op.kind = "activate" /\ op.binding # NoBinding /\ op.focus = op.sectionId

\* C1: in every state of a loaded document the binding ledger holds at most
\* one binding with is_active = true.
C1_AtMostOneActiveBinding == document.loaded => Cardinality(LedgerActive) <= 1

\* C2 as stated: a focus switch from A to B that has settled has issued
\* exactly two persistence calls, the deactivate call for A's binding and
\* then the create call for B.
C2_SwitchIssuesExactlyTwoCalls ==
    IsSwitch(last.op) =>
        last.op.calls = <<DeactivateCall(last.op), CreateCall(last.op)>>

\* C2 amended: a focus switch issues the deactivate call for A's binding
\* first and the create call for B only once the deactivate call has
\* completed, two calls in this order; when the deactivate call fails it is
\* the only call issued and the switch throws.
C2_SwitchDeactivatesThenCreates ==
    /\ \A i \in DOMAIN ops :
          IsSwitch(ops[i]) =>
            /\ ops[i].pc = "updateSectionBinding"
                  => ops[i].calls = <<DeactivateCall(ops[i])>>
            /\ ops[i].pc = "createSectionBinding"
                  => ops[i].calls = <<DeactivateCall(ops[i]), CreateCall(ops[i])>>
    /\ IsSwitch(last.op) =>
            /\ last.outcome = "returned"
                  => last.op.calls = <<DeactivateCall(last.op), CreateCall(last.op)>>
            /\ last.outcome = "threw"
                  => \/ /\ last.op.pc = "updateSectionBinding"
                        /\ last.op.calls = <<DeactivateCall(last.op)>>
                     \/ /\ last.op.pc = "createSectionBinding"
                        /\ last.op.calls = <<DeactivateCall(last.op),
                                             CreateCall(last.op)>>

C2_SwitchSettled ==
    /\ IsSwitch(last.op)
    /\ last.outcome = "returned"
    /\ Len(last.op.calls) = 2

\* C3: when the deactivate call of a focus switch succeeded and the create
\* call failed, the controller is Idle, the error was surfaced and the
\* previous binding is not active in the ledger.
C3_FailedCreateEndsIdle ==
    (/\ IsSwitch(last.op)
     /\ last.op.pc = "createSectionBinding"
     /\ last.outcome = "threw")
    => /\ activeSectionId = NoSection
       /\ last.onError = 1
       /\ \A k \in DOMAIN activeBindings :
             activeBindings[k].id = last.op.binding => ~activeBindings[k].is_active

\* C4: deactivateSection(S) for a section S that is not the focused one
\* issues no persistence call, does not fail and leaves the ledger and the
\* focus as they were.
C4_DeactivateNonFocusedIsNoOp ==
    /\ \A i \in DOMAIN ops :
          (ops[i].kind = "deactivate" /\ ops[i].focus # ops[i].sectionId)
             => ops[i].calls = <<>>
    /\ (last.op.kind = "deactivate" /\ last.op.focus # last.op.sectionId)
          => /\ last.op.calls = <<>>
             /\ last.outcome = "returned"
             /\ activeBindings = last.op.bindings
             /\ activeSectionId = last.op.focus

\* C5: after deleteSection(S) succeeded for the focused section S the
\* controller is Idle and no binding of the ledger that references S is
\* active.
C5_DeleteClosesBinding ==
    (/\ last.op.kind = "deleteSection"
     /\ last.outcome = "returned"
     /\ last.op.focus = last.op.sectionId)
    => /\ activeSectionId = NoSection
       /\ \A k \in LedgerActive :
             activeBindings[k].section_id # last.op.sectionId

\* C6: after a successful switch from A to B with type t2, the ledger's
\* binding on A is inactive, the binding on B is active with type t2 and the
\* focus is B.
C6_SwitchClosesPreviousBinding ==
    (IsSwitch(last.op) /\ last.outcome = "returned")
    => /\ \E k \in DOMAIN activeBindings :
             activeBindings[k].id = last.op.binding
       /\ \A k \in DOMAIN activeBindings :
             activeBindings[k].id = last.op.binding => ~activeBindings[k].is_active
       /\ \E k \in LedgerActive :
             /\ activeBindings[k].section_id = last.op.sectionId
             /\ activeBindings[k].binding_type = last.op.bindingType
       /\ activeSectionId = last.op.sectionId

\* C7: activateSection(S, t2) while focused on S deactivates the existing
\* binding and creates a new one; afterwards the ledger holds two bindings
\* for S, the first inactive and the second active with type t2, and the
\* focus is S.
C7_RebindKeepsBothBindings ==
    (IsRebind(last.op) /\ last.outcome = "returned")
    => /\ last.op.calls = <<DeactivateCall(last.op), CreateCall(last.op)>>
       /\ \E k1, k2 \in DOMAIN activeBindings :
             /\ k1 < k2
             /\ activeBindings[k1].id = last.op.binding
             /\ activeBindings[k1].section_id = last.op.sectionId
             /\ ~activeBindings[k1].is_active
             /\ activeBindings[k2].section_id = last.op.sectionId
             /\ activeBindings[k2].is_active
             /\ activeBindings[k2].binding_type = last.op.bindingType
       /\ activeSectionId = last.op.sectionId

\* C8: between operations the focus is the section of the active binding of
\* the ledger, and it is none exactly when the ledger holds no active
\* binding.
C8_FocusDerivedFromLedger ==
    NoneInFlight =>
        /\ (activeSectionId = NoSection) <=> (LedgerActive = {})
        /\ \A k \in LedgerActive : activeBindings[k].section_id = activeSectionId

\* C9: a load sets document, sections and active bindings only when all
\* three fetches succeeded; when one of them failed the load reports the
\* error and leaves document, sections, activeBindings and activeSectionId
\* as they were.
LoadSettles == Len(ops') < Len(ops) /\ last'.op.kind = "load"

C9_LoadIsAllOrNothing ==
    [][LoadSettles =>
         IF LoadFulfilled(last'.op)
         THEN /\ document' = last'.op.docVal
              /\ sections' = last'.op.secsVal
              /\ activeBindings' = last'.op.bindsVal
              /\ last'.onError = 0
         ELSE /\ LoadRejected(last'.op)
              /\ last'.onError = 1
              /\ error'
              /\ UNCHANGED <<document, sections, activeBindings, activeSectionId>>
      ]_vars

\* a reload over a populated state fetched bindings that differ from the
\* ledger, and another of its fetches failed
C9_PartialLoadFailed ==
    /\ last.op.kind = "load"
    /\ last.op.binds = "ok"
    /\ last.op.bindsVal # activeBindings
    /\ LoadRejected(last.op)
    /\ last.onError = 1
    /\ document.loaded
    /\ sections # <<>>
    /\ activeSectionId # NoSection

\* the step that calls updateContent, and the step in which it settles
UpdateContentCalled ==
    Len(ops') > Len(ops) /\ ops'[Len(ops')].kind = "updateContent"

UpdateContentSettles == Len(ops') < Len(ops) /\ last'.op.kind = "updateContent"

SectionKinds == {"createSection", "updateSection", "deleteSection"}

SectionCalled == Len(ops') > Len(ops) /\ ops'[Len(ops')].kind \in SectionKinds

SectionSettles == Len(ops') < Len(ops) /\ last'.op.kind \in SectionKinds

\* the local mutation an optimistic callback would apply when it is called
AttemptApplied(op, before, after) ==
    CASE op.kind = "createSection" ->
           /\ Len(after) = Len(before) + 1
           /\ SubSeq(after, 1, Len(before)) = before
           /\ after[Len(after)].parent_id = op.data.parent_id
           /\ after[Len(after)].order = op.data.order
      [] op.kind = "updateSection" ->
           after = [k \in DOMAIN before |->
                      IF before[k].id = op.sectionId
                      THEN SrvApply(before[k], op.data) ELSE before[k]]
      [] op.kind = "deleteSection" ->
           after = SelectSeq(before, LAMBDA r : r.id # op.sectionId)

ParentIn(list, id) ==
    LET hits == {k \in DOMAIN list : list[k].id = id}
    IN  IF hits = {} THEN NoSection ELSE list[CHOOSE k \in hits : TRUE].parent_id

\* id is reached from section `from` by following parent_id at most n times
RECURSIVE ReachesUp(_, _, _, _)
ReachesUp(list, from, id, n) ==
    IF from = id THEN TRUE
    ELSE IF n = 0 \/ from = NoSection THEN FALSE
    ELSE ReachesUp(list, ParentIn(list, from), id, n - 1)

Acyclic(list) ==
    \A k \in DOMAIN list :
        ~ReachesUp(list, list[k].parent_id, list[k].id, Len(list))

\* giving section id of the list the parent `parent` closes a cycle
WouldCycle(list, id, parent) ==
    /\ \E k \in DOMAIN list : list[k].id = id
    /\ parent \notin {Undefined, NoSection}
    /\ ReachesUp(list, parent, id, Len(list))

\* C17: an updateSection or createSection whose parent_id would make the
\* parent relation cyclic issues no network call, and the section list of
\* the coordinator is an acyclic forest in every state.
C17_CyclicParentRejected ==
    /\ \A i \in DOMAIN ops :
         ops[i].kind = "updateSection"
           => ~WouldCycle(sections, ops[i].sectionId, ops[i].data.parent_id)
    /\ Acyclic(sections)

\* the callbacks of the binding ledger that are suspended at a persistence call
BindingKinds == {"activate", "deactivate"}

BindingOpsInFlight == {i \in DOMAIN ops : ops[i].kind \in BindingKinds}

\* C12: at no time are two activateSection / deactivateSection operations of
\* the client in flight: a second one starts its persistence calls only after
\* the first has settled.
C12_BindingOpsSerialized == Cardinality(BindingOpsInFlight) <= 1

\* the step in which an activateSection or a deactivateSection that awaited a
\* persistence call resumes with the response
BindingSettles == Len(ops') < Len(ops) /\ last'.op.kind \in BindingKinds

\* the callback that resumes was called before the one that resumed last,
\* and the focus is no longer the one it was called with
Superseded ==
    /\ last.op.kind \in BindingKinds
    /\ last.outcome = "returned"
    /\ last.pos > last'.pos
    /\ activeSectionId # last'.op.focus

\* C13: when the response of a create or deactivate call arrives after a later
\* operation has changed the focus, it is discarded: activeSectionId and the
\* ledger are left as they are.
C13_StaleResponseDiscarded ==
    [][(BindingSettles /\ last'.outcome = "returned" /\ Superseded)
         => UNCHANGED <<activeSectionId, activeBindings>>]_vars

\* the callback that settled last, if one has settled since the last call
Settled == last.outcome # "none"

NoCallTwice(calls) ==
    \A j, k \in DOMAIN calls : j # k => calls[j] # calls[k]

\* C14 as stated: updateContent, createSection, updateSection, deleteSection,
\* activateSection from Idle and deactivateSection of the focused section
\* have issued exactly one persistence call when they settle, a focus switch
\* exactly two, and no call is issued twice.
C14_OneCallPerMutation ==
    Settled =>
      /\ last.op.kind \in {"updateContent"} \cup SectionKinds
           => Len(last.op.calls) = 1
      /\ (last.op.kind = "activate" /\ last.op.focus = NoSection)
           => Len(last.op.calls) = 1
      /\ (last.op.kind = "deactivate" /\ last.op.focus = last.op.sectionId)
           => Len(last.op.calls) = 1
      /\ IsSwitch(last.op) => Len(last.op.calls) = 2
      /\ NoCallTwice(last.op.calls)

\* C14 amended: updateContent, createSection, updateSection and deleteSection
\* issue exactly one persistence call; activateSection issues the create call
\* alone when the ledger holds no active binding on the focus (so from Idle),
\* and otherwise the deactivate call followed, only if that call succeeded,
\* by the create call; deactivateSection issues one deactivate call when the
\* ledger holds an active binding on the section and no call otherwise; no
\* call is issued twice.
C14_CallsPerMutation ==
    /\ \A i \in DOMAIN ops :
         ops[i].kind # "load"
           => NoCallTwice(ops[i].calls) /\ Len(ops[i].calls) \in {1, 2}
    /\ Settled =>
         /\ last.op.kind = "updateContent"
              => last.op.calls = <<Call("updateDocument", "doc")>>
         /\ last.op.kind = "createSection"
              => last.op.calls = <<Call("createSection", last.op.data.parent_id)>>
         /\ last.op.kind \in {"updateSection", "deleteSection"}
              => last.op.calls = <<Call(last.op.kind, last.op.sectionId)>>
         /\ last.op.kind = "activate" =>
              last.op.calls =
                IF last.op.binding = NoBinding
                THEN <<CreateCall(last.op)>>
                ELSE IF last.outcome = "threw" /\ last.op.pc = "updateSectionBinding"
                THEN <<DeactivateCall(last.op)>>
                ELSE <<DeactivateCall(last.op), CreateCall(last.op)>>
         /\ (last.op.kind = "activate" /\ last.op.focus = NoSection)
              => last.op.binding = NoBinding
         /\ last.op.kind = "deactivate" =>
              last.op.calls =
                IF last.op.binding = NoBinding THEN <<>>
                ELSE <<DeactivateCall(last.op)>>

\* a focus switch whose deactivate call failed has settled with one call
C14_SwitchSettledWithOneCall ==
    /\ IsSwitch(last.op)
    /\ last.outcome = "threw"
    /\ last.op.calls = <<DeactivateCall(last.op)>>
    /\ document.loaded

\* the active bindings the ledger holds on section s
ActiveOn(bindings, s) ==
    {k \in DOMAIN bindings : bindings[k].section_id = s /\ bindings[k].is_active}

C19_InactiveBindingsAreStamped ==
    \A k \in DOMAIN activeBindings :
        ~activeBindings[k].is_active => activeBindings[k].deactivated_at

\* a binding of the rows, or of the ledger, with is_active = false keeps that
\* value, its section and its type in the step
StaysClosed(before, after) ==
    \A k \in DOMAIN before, j \in DOMAIN after :
        (before[k].id = after[j].id /\ ~before[k].is_active)
          => /\ ~after[j].is_active
             /\ after[j].section_id = before[k].section_id
             /\ after[j].binding_type = before[k].binding_type

SrvClosed(id) ==
    \E k \in DOMAIN srvBindings : srvBindings[k].id = id /\ ~srvBindings[k].is_active

LocallyClosed(id) ==
    \E k \in DOMAIN activeBindings :
        activeBindings[k].id = id /\ ~activeBindings[k].is_active

\* C20: a binding whose is_active has become false, in the ledger or at the
\* backend, is never set back to active and keeps its section_id and
\* binding_type, and no callback sends a state-changing call for it.
C20_ClosedBindingIsFinal ==
    [][/\ StaysClosed(activeBindings, activeBindings')
       /\ StaysClosed(srvBindings, srvBindings')
       /\ (Len(ops') > Len(ops) /\ ops'[Len(ops')].pc = "updateSectionBinding")
            => /\ ~SrvClosed(ops'[Len(ops')].binding)
               /\ ~LocallyClosed(ops'[Len(ops')].binding)
      ]_vars

\* position of the row of an id in a list of rows with distinct ids
PosIn(list, id) == CHOOSE k \in DOMAIN list : list[k].id = id

\* `out` holds exactly the rows of `list` at the positions idx, in ascending
\* `order`, rows of equal `order` in the order of their positions in `list`
SortedSelection(out, list, idx) ==
    /\ Len(out) = Cardinality(idx)
    /\ \A k \in DOMAIN out : \E i \in idx : out[k] = list[i]
    /\ \A j, k \in DOMAIN out :
         j < k => \/ out[j].order < out[k].order
                  \/ /\ out[j].order = out[k].order
                     /\ PosIn(list, out[j].id) < PosIn(list, out[k].id)

\* C15: the roots of the projection are exactly the sections without a parent
\* and the children of an id exactly the sections whose parent_id is the id,
\* both in ascending `order`, sections of equal `order` in list order.
C15_ProjectionSelectsAndSorts ==
    /\ SortedSelection(rendered.roots, panelSections,
                       {i \in DOMAIN panelSections : NoParent(panelSections[i])})
    /\ \A id \in AllSectionIds :
         SortedSelection(rendered.children[id], panelSections,
                         {i \in DOMAIN panelSections :
                              panelSections[i].parent_id = id})

\* the scenario of the projection, [s1 root, s2 child of s1], rendered with
\* s1 expanded
C15_RootWithChild ==
    /\ panelSections = <<Section("s1", NoSection, 0), Section("s2", "s1", 0)>>
    /\ rendered.roots = <<Section("s1", NoSection, 0)>>
    /\ rendered.children["s1"] = <<Section("s2", "s1", 0)>>
    /\ rendered.children["s2"] = <<>>
    /\ expandedSections = {"s1"}

\* the step renders the panel again over the same section list
RenderedAgain == expandedSections' # expandedSections

\* the step exchanges the `order` of the siblings at positions j and k
OrdersSwapped(j, k) ==
    /\ j < k
    /\ Siblings(panelSections[j], panelSections[k])
    /\ panelSections[j].order # panelSections[k].order
    /\ panelSections' = [panelSections EXCEPT ![j].order = panelSections[k].order,
                                              ![k].order = panelSections[j].order]

\* a rendered list after rows a and b have exchanged their positions and
\* taken their new `order`
Exchanged(out, a, b) ==
    [n \in DOMAIN out |->
        IF out[n].id = a.id THEN [b EXCEPT !.order = a.order]
        ELSE IF out[n].id = b.id THEN [a EXCEPT !.order = b.order]
        ELSE out[n]]

ExchangedView(j, k) ==
    [roots |-> Exchanged(rendered.roots, panelSections[j], panelSections[k]),
     children |-> [id \in AllSectionIds |->
                     Exchanged(rendered.children[id],
                               panelSections[j], panelSections[k])]]

\* no other sibling of the two rows has the `order` of one of them
NoTieWith(j, k) ==
    \A i \in DOMAIN panelSections \ {j, k} :
        Siblings(panelSections[i], panelSections[j])
          => panelSections[i].order \notin {panelSections[j].order,
                                            panelSections[k].order}

C21_OneActiveBindingPerSection ==
    \A s \in SectionIds :
        /\ Cardinality(ActiveOn(activeBindings, s)) <= 1
        /\ Cardinality(ActiveOn(srvBindings, s)) <= 1

\* the ids of the active bindings of a list
ActiveIds(bindings) ==
    {bindings[k].id : k \in {j \in DOMAIN bindings : bindings[j].is_active}}

\* C22: when no persistence call is in flight, the bindings that the ledger
\* marks active are the bindings that are active at the backend.
C22_LedgerAgreesWithBackend ==
    (NoneInFlight /\ document.loaded)
      => ActiveIds(activeBindings) = ActiveIds(srvBindings)

\* the operation has failed: a fetch of the load was rejected, or the
\* persistence call the callback awaited threw
OpFailed(op) == IF op.kind = "load" THEN LoadRejected(op) ELSE op.resp = "error"

\* C24: every operation of the coordinator that fails reports the failure to
\* its caller: onError is invoked once, a mutating operation rejects its
\* promise and the load holds the error; an operation that did not fail
\* reports nothing.
C24_FailuresAreReported ==
    Settled =>
      IF OpFailed(last.op)
      THEN /\ last.onError = 1
           /\ last.op.kind # "load" => last.outcome = "threw"
           /\ last.op.kind = "load" => error
      ELSE /\ last.onError = 0
           /\ last.outcome = "returned"

\* a createVersion has failed and has been reported, on a loaded document
C24_VersionFailureReported ==
    /\ document.loaded
    /\ last.op.kind = "createVersion"
    /\ OpFailed(last.op)
    /\ last.outcome = "threw"
    /\ last.onError = 1

\* the step gives activeSectionId a section
FocusEntered == activeSectionId' # activeSectionId /\ activeSectionId' # NoSection

\* the ledger holds a binding on section s that the backend has created
HoldsCreatedBinding(bindings, s) ==
    \E k \in DOMAIN bindings :
        /\ bindings[k].section_id = s
        /\ \E j \in DOMAIN srvBindings : srvBindings[j].id = bindings[k].id

\* C26: activeSectionId becomes S only in the step in which an activateSection
\* resumes after its create call for S has succeeded, and in every state in
\* which the focus is on S the ledger holds the binding that a successful
\* create call for S returned.
C26_FocusedOnlyAfterCreate ==
    [][/\ FocusEntered
            => /\ Len(ops') < Len(ops)
               /\ last'.op.kind = "activate"
               /\ last'.op.sectionId = activeSectionId'
               /\ last'.op.pc = "createSectionBinding"
               /\ last'.op.resp = "ok"
               /\ \E k \in DOMAIN activeBindings' :
                    activeBindings'[k] = last'.op.payload
       /\ activeSectionId' # NoSection
            => HoldsCreatedBinding(activeBindings', activeSectionId')
      ]_vars

\* the load that settles was called before the load that settled last
LoadSuperseded ==
    /\ last.op.kind = "load"
    /\ LoadFulfilled(last.op)
    /\ last.pos > last'.pos

\* C27: when two loads overlap, the response of the load that was started
\* first does not overwrite the result of the load that was started last.
C27_LaterLoadWins ==
    [][(LoadSettles /\ LoadSuperseded)
         => UNCHANGED <<document, sections, activeBindings>>]_vars

\* the deactivate call of the callback that settles has failed
DeactivateCallFailed ==
    /\ BindingSettles
    /\ last'.op.pc = "updateSectionBinding"
    /\ last'.op.resp = "error"

\* C28: when the deactivate call fails, inside activateSection or inside
\* deactivateSection, no create call has been issued, activeBindings and
\* activeSectionId are as they were when the operation was called, and the
\* error is rethrown.
C28_FailedDeactivateChangesNothing ==
    [][DeactivateCallFailed
         => /\ last'.op.calls = <<DeactivateCall(last'.op)>>
            /\ UNCHANGED <<activeBindings, activeSectionId>>
            /\ activeBindings' = last'.op.bindings
            /\ activeSectionId' = last'.op.focus
            /\ last'.outcome = "threw"
            /\ last'.onError = 1
      ]_vars

\* the deactivate call of a deactivateSection of the focused section has
\* failed: the focus and the active binding are still there
C28_DeactivateFailedKeepsFocus ==
    /\ document.loaded
    /\ last.op.kind = "deactivate"
    /\ last.op.resp = "error"
    /\ last.outcome = "threw"
    /\ activeSectionId = last.op.sectionId
    /\ ActiveOn(activeBindings, activeSectionId) # {}

\* activateSection or deactivateSection is called and sends the deactivate
\* call (updateSectionBinding with is_active: false) as its first call
DeactivateCallSent ==
    /\ Len(ops') = Len(ops) + 1
    /\ ops'[Len(ops')].kind \in BindingKinds
    /\ ops'[Len(ops')].pc = "updateSectionBinding"

\* C29: over any sequence of activateSection and deactivateSection calls, the
\* deactivate call is sent at most once for a binding id: it is never sent
\* for a binding it has been sent for before.
C29_DeactivateSentOncePerBinding ==
    [][DeactivateCallSent => ops'[Len(ops')].binding \notin deactivateCalls]_vars

VisitedIds == {visited[k] : k \in DOMAIN visited}

\* no section is visited twice
VisitedOnce == \A j, k \in DOMAIN visited : visited[j] = visited[k] => j = k

\* following parent_id from section id arrives at a root of the list, in at
\* most n steps; with mustBeExpanded, every section passed on the way up is
\* expanded
RECURSIVE UnderRoot(_, _, _, _, _)
UnderRoot(list, expanded, mustBeExpanded, id, n) ==
    LET hits == {k \in DOMAIN list : list[k].id = id}
        row == list[CHOOSE k \in hits : TRUE]
    IN  IF hits = {} THEN FALSE
        ELSE IF NoParent(row) THEN TRUE
        ELSE IF n = 0 THEN FALSE
        ELSE /\ mustBeExpanded => row.parent_id \in expanded
             /\ UnderRoot(list, expanded, mustBeExpanded, row.parent_id, n - 1)

ReachableFromRoot(id) ==
    UnderRoot(panelSections, expandedSections, FALSE, id, Len(panelSections))

ShownFromRoot(id) ==
    UnderRoot(panelSections, expandedSections, TRUE, id, Len(panelSections))

ListedIds == {panelSections[k].id : k \in DOMAIN panelSections}

\* C30 as stated: for any list, the traversal from the roots terminates,
\* visits each section at most once, and visits exactly the sections that are
\* reachable from a root through parent links.
C30_VisitsAllUnderRoots ==
    /\ RangeError \notin VisitedIds
    /\ VisitedOnce
    /\ VisitedIds = {id \in ListedIds : ReachableFromRoot(id)}

\* C30: for any list of distinct ids, the traversal from the roots
\* terminates and visits each section at most once; it visits exactly the
\* sections that are reachable from a root through parent links along which
\* every ancestor is expanded, so a section on a parent cycle or under a
\* missing parent is never visited.
C30_VisitsExpandedUnderRoots ==
    /\ RangeError \notin VisitedIds
    /\ VisitedOnce
    /\ VisitedIds = {id \in ListedIds : ShownFromRoot(id)}
    /\ \A id \in ListedIds : ~ReachableFromRoot(id) => id \notin VisitedIds

\* s2 and s3 are each other's parent, every section has been expanded, and
\* the render has visited the root s1 alone
C30_CycleNotVisited ==
    /\ \E j, k \in DOMAIN panelSections :
         /\ panelSections[j].id = "s2" /\ panelSections[j].parent_id = "s3"
         /\ panelSections[k].id = "s3" /\ panelSections[k].parent_id = "s2"
    /\ expandedSections = AllSectionIds
    /\ visited = <<"s1">>

\* the elements of the rendered cursor list that belong to a connection
DrawnFor(connectionId) ==
    {j \in DOMAIN cursorList : cursorList[j].key = connectionId}

\* the connection is in the participant list with the presence it has
ListedAsCollaborator(other) ==
    \E j \in DOMAIN collaborators.others :
        /\ collaborators.others[j].id = other.connectionId
        /\ collaborators.others[j].presence = other.presence

\* C23: a remote participant whose presence has cursor = null is not in the
\* rendered cursor list and is in the participant list of useCollaborators; a
\* participant with a cursor is rendered exactly once, at that position.
C23_CursorDrawnIffPresent ==
    /\ \A k \in DOMAIN others :
         LET other == others[k]
             cursor == other.presence.cursor
         IN  /\ ListedAsCollaborator(other)
             /\ cursor = NoCursor => DrawnFor(other.connectionId) = {}
             /\ cursor # NoCursor =>
                  /\ Cardinality(DrawnFor(other.connectionId)) = 1
                  /\ \A j \in DrawnFor(other.connectionId) :
                       <<cursorList[j].x, cursorList[j].y>> = cursor
    /\ collaborators.count = Len(others) + 1

\* participant 1 has no cursor and participant 2 has one: the cursor list
\* holds the cursor of participant 2 only, the participant list holds both
C23_OneOfTwoDrawn ==
    /\ Len(others) = 2
    /\ others[1].connectionId = 1 /\ others[1].presence.cursor = NoCursor
    /\ others[2].connectionId = 2 /\ others[2].presence.cursor = <<1, 0>>
    /\ cursorList = <<[key |-> 2, x |-> 1, y |-> 0, name |-> "u2"]>>
    /\ Len(collaborators.others) = 2
    /\ collaborators.others[1].presence.cursor = NoCursor

\* C25: while a send is in flight a further submit does not start another
\* one: at most one sendMessage call is outstanding, the panel's isLoading is
\* set while it is, and it is false again once the send has settled, with a
\* response or without.
C25_OneSendAtATime ==
    /\ Len(sending) <= 1
    /\ chatIsLoading <=> sending # <<>>

\* a send has failed: no call is outstanding, the error is held, the user's
\* message has no reply and the panel is not loading
C25_FailedSendSettled ==
    /\ sending = <<>>
    /\ aiError
    /\ messages = <<Message("user", "hi")>>
    /\ ~chatIsLoading

====
